---- MODULE Spec2Model ----
(***************************************************************************)
(* ClientCache of the ESPv2 service control filter                         *)
(* (src/envoy/http/service_control/client_cache.cc): the Check, Quota and  *)
(* Report calls issued through the service control client, the decoding    *)
(* of the transport outcome and the decision handed to the caller.         *)
(***************************************************************************)
EXTENDS Integers, Sequences, FiniteSets, TLC

\* ------------------------------------------------------------------ bounds

\* Number of calls (of any type) the request path issues in one behaviour.
MaxCalls == 2

CallIds == 1..MaxCalls

\* Request contents (only the Aggregation Client's cache key reads them).
Requests == {"r1", "r2"}

\* ------------------------------------------------------- status and codes

\* google::protobuf::util::StatusCode values used by the code.
kOk == 0
kInvalidArgument == 3
kPermissionDenied == 7
kResourceExhausted == 8
kInternal == 13
kUnavailable == 14
kUnauthenticated == 16

\* Status(code, message)
Status(code, message) ==
    [code |-> code, message |-> message]

OkStatus ==
    Status(kOk, "")

ok(status) ==
    status.code = kOk

\* absl::StatusCodeToString
StatusCodeToString(code) ==
    CASE code = kOk -> "OK"
      [] code = kInvalidArgument -> "INVALID_ARGUMENT"
      [] code = kPermissionDenied -> "PERMISSION_DENIED"
      [] code = kResourceExhausted -> "RESOURCE_EXHAUSTED"
      [] code = kInternal -> "INTERNAL"
      [] code = kUnavailable -> "UNAVAILABLE"
      [] code = kUnauthenticated -> "UNAUTHENTICATED"
      [] OTHER -> ""

\* ScResponseError {name, is_network_error, type}
ScResponseError(name, is_network_error, type) ==
    [name |-> name, is_network_error |-> is_network_error, type |-> type]

\* The error of a default-constructed CheckResponseInfo / QuotaResponseInfo.
NoScResponseError ==
    ScResponseError("", FALSE, "ERROR_TYPE_UNSPECIFIED")

\* Convert http error status into the ScResponseError.
failCallStatusToScResponseError(status) ==
    ScResponseError(StatusCodeToString(status.code), TRUE,
                    "ERROR_TYPE_UNSPECIFIED")

\* ------------------------------------------------------ response messages

\* A response message (CheckResponse, AllocateQuotaResponse, ReportResponse)
\* is the sequence of error codes it carries; `new Response` is empty.
EmptyResponse ==
    [errors |-> <<>>]

\* Wire form of a response: (field tag, value) pairs. Tag 2 is the errors
\* field; a body of odd length is truncated and a pair with another tag is
\* not a field of the message.
kErrorsField == 2

RECURSIVE DecodeFields(_)
DecodeFields(body) ==
    IF Len(body) < 2 \/ body[1] # kErrorsField
    THEN <<>>
    ELSE <<body[2]>> \o DecodeFields(SubSeq(body, 3, Len(body)))

\* Response::ParseFromString(body): clears the message, then merges the
\* fields read; FALSE when the body is malformed (the message then holds the
\* fields read before the malformed one).
ParseFromString(body) ==
    LET fields == DecodeFields(body)
    IN  [ok |-> (2 * Len(fields) = Len(body)),
         msg |-> [errors |-> fields]]

\* Mutant of processScCallTransportStatus: the body is parsed into the
\* response whatever the transport status is.
processScCallTransportStatus_ParsesAlways(status, resp, body) ==
    LET parsed == ParseFromString(body)
    IN  IF ~ok(status)
        THEN [status |-> status, resp |-> parsed.msg]
        ELSE IF ~parsed.ok
             THEN [status |-> Status(kInvalidArgument, "Invalid response"),
                   resp |-> parsed.msg]
             ELSE [status |-> status, resp |-> parsed.msg]

\* processScCallTransportStatus<Response>(status, resp, body): the status
\* handed on and the response object afterwards. A failed transport status is
\* returned as it is and the body is not parsed.
processScCallTransportStatus(status, resp, body) ==
    IF ~ok(status)
    THEN [status |-> status, resp |-> resp]
    ELSE LET parsed == ParseFromString(body)
         IN  IF ~parsed.ok
             THEN [status |-> Status(kInvalidArgument, "Invalid response"),
                   resp |-> parsed.msg]
             ELSE [status |-> status, resp |-> parsed.msg]

\* ------------------------------------------------------ domain conversion

\* CheckError / QuotaError codes of the service control API carried by the
\* responses of the model.
kNotFound == 5
kServiceNotActivated == 104
kApiKeyInvalid == 105
kProjectDeleted == 108
kServiceStatusUnavailable == 301

\* api_proxy::service_control::ConvertCheckResponse: the service-level status
\* and the ScResponseError of a decoded CheckResponse, decided by its first
\* check error.
ConvertCheckResponse(response) ==
    IF response.errors = <<>>
    THEN [status |-> OkStatus, error |-> NoScResponseError]
    ELSE LET e == response.errors[1]
         IN  CASE e = kApiKeyInvalid ->
                    [status |-> Status(kInvalidArgument, "API key not valid"),
                     error |-> ScResponseError("API_KEY_INVALID", FALSE,
                                               "API_KEY_INVALID")]
               [] e = kServiceNotActivated ->
                    [status |-> Status(kPermissionDenied, "API not activated"),
                     error |-> ScResponseError("SERVICE_NOT_ACTIVATED", FALSE,
                                               "SERVICE_NOT_ACTIVATED")]
               [] e = kProjectDeleted ->
                    [status |-> Status(kPermissionDenied, "Project deleted"),
                     error |-> ScResponseError("PROJECT_DELETED", FALSE,
                                               "CONSUMER_BLOCKED")]
               [] e = kNotFound ->
                    [status |-> Status(kInvalidArgument, "Project not found"),
                     error |-> ScResponseError("NOT_FOUND", FALSE,
                                               "CONSUMER_ERROR")]
               [] e = kResourceExhausted ->
                    [status |-> Status(kResourceExhausted, "Quota check failed"),
                     error |-> ScResponseError("RESOURCE_EXHAUSTED", FALSE,
                                               "CONSUMER_QUOTA")]
               [] e = kServiceStatusUnavailable ->
                    [status |-> Status(kUnavailable, "Backend unavailable"),
                     error |-> ScResponseError("SERVICE_STATUS_UNAVAILABLE",
                                               FALSE, "ERROR_TYPE_UNSPECIFIED")]
               [] OTHER ->
                    [status |-> Status(kInternal, "Unsupported check error"),
                     error |-> ScResponseError("UNSUPPORTED", FALSE,
                                               "ERROR_TYPE_UNSPECIFIED")]

\* api_proxy::service_control::ConvertAllocateQuotaResponse: as above for a
\* decoded AllocateQuotaResponse, decided by its first allocate error.
ConvertAllocateQuotaResponse(response) ==
    IF response.errors = <<>>
    THEN [status |-> OkStatus, error |-> NoScResponseError]
    ELSE LET e == response.errors[1]
         IN  CASE e = kResourceExhausted ->
                    [status |-> Status(kResourceExhausted, "Quota exhausted"),
                     error |-> ScResponseError("RESOURCE_EXHAUSTED", FALSE,
                                               "CONSUMER_QUOTA")]
               [] e = kApiKeyInvalid ->
                    [status |-> Status(kInvalidArgument, "API key not valid"),
                     error |-> ScResponseError("API_KEY_INVALID", FALSE,
                                               "API_KEY_INVALID")]
               [] e = kProjectDeleted ->
                    [status |-> Status(kPermissionDenied, "Project deleted"),
                     error |-> ScResponseError("PROJECT_DELETED", FALSE,
                                               "CONSUMER_BLOCKED")]
               [] OTHER ->
                    [status |-> Status(kInternal, "Unsupported quota error"),
                     error |-> ScResponseError("UNSUPPORTED", FALSE,
                                               "ERROR_TYPE_UNSPECIFIED")]

\* A default-constructed CheckResponseInfo.
CheckResponseInfo ==
    [error |-> NoScResponseError, api_key_state |-> "NOT_CHECKED"]

\* A default-constructed QuotaResponseInfo.
QuotaResponseInfo ==
    [error |-> NoScResponseError]

\* ------------------------------------------------------------- statistics

StatusCodes ==
    {kOk, kInvalidArgument, kPermissionDenied, kResourceExhausted, kInternal,
     kUnavailable, kUnauthenticated}

FilterCounters ==
    {"denied_consumer_blocked_", "denied_consumer_error_",
     "denied_consumer_quota_", "allowed_control_plane_fault_",
     "denied_control_plane_fault_", "denied_producer_error_"}

\* ServiceControlFilterStats::create: every counter starts at zero.
NewFilterStats ==
    [filter_ |-> [c \in FilterCounters |-> 0],
     check_ |-> [c \in StatusCodes |-> 0],
     allocate_quota_ |-> [c \in StatusCodes |-> 0],
     report_ |-> [c \in StatusCodes |-> 0]]

\* Counter::inc() on a counter of filter_stats_.filter_
inc(stats, counter) ==
    [stats EXCEPT !.filter_[counter] = @ + 1]

\* Mutant of collectCallStatus: every call is counted under the code OK.
collectCallStatus_AsOk(stats, call_stats, code) ==
    [stats EXCEPT ![call_stats][kOk] = @ + 1]

\* ClientCache::collectCallStatus(call_stats, code), for call_stats one of
\* check_, allocate_quota_, report_: the counter of the code goes up by one.
collectCallStatus(stats, call_stats, code) ==
    [stats EXCEPT ![call_stats][code] = @ + 1]

\* Mutant of collectScResponseErrorStats: CONSUMER_QUOTA is placed among the
\* cases of the consumer errors and falls through into their counter.
collectScResponseErrorStats_QuotaFallsThrough(stats, error_type) ==
    CASE error_type = "CONSUMER_BLOCKED" ->
           inc(stats, "denied_consumer_blocked_")
      [] error_type \in {"CONSUMER_ERROR", "SERVICE_NOT_ACTIVATED",
                         "API_KEY_INVALID"} ->
           inc(stats, "denied_consumer_error_")
      [] error_type = "CONSUMER_QUOTA" ->
           inc(inc(stats, "denied_consumer_quota_"),
               "denied_consumer_error_")
      [] OTHER -> stats

\* ClientCache::collectScResponseErrorStats(error_type)
collectScResponseErrorStats(stats, error_type) ==
    CASE error_type = "CONSUMER_BLOCKED" ->
           inc(stats, "denied_consumer_blocked_")
      [] error_type \in {"CONSUMER_ERROR", "SERVICE_NOT_ACTIVATED",
                         "API_KEY_INVALID"} ->
           inc(stats, "denied_consumer_error_")
      [] error_type = "CONSUMER_QUOTA" ->
           inc(stats, "denied_consumer_quota_")
      [] OTHER -> stats

\* ---------------------------------------------------------- decision: Check

\* What one run of a handler does: the counters afterwards, the arguments of
\* the on_done it invokes, the values it assigned to
\* response_info.api_key_state in order, and the branch it took.
Handled(stats, status, info, api_key_writes, branch) ==
    [stats |-> stats, status |-> status, info |-> info,
     api_key_writes |-> api_key_writes, branch |-> branch]

\* Mutant of scrubbed_status: the transport code is passed through.
scrubbed_status_KeepsCode(final_status) ==
    Status(final_status.code, final_status.message)

\* Mutant of scrubbed_status: the message is replaced by a fixed text.
scrubbed_status_DropsMessage(final_status) ==
    Status(kInternal, "Internal error")

\* Status scrubbed_status(StatusCode::kInternal, final_status.message())
scrubbed_status(final_status) ==
    Status(kInternal, final_status.message)

\* Mutant of ApiKeyStateOfErrorType: SERVICE_NOT_ACTIVATED is not told apart.
ApiKeyStateOfErrorType_NoNotEnabled(type) ==
    IF type = "API_KEY_INVALID" THEN "INVALID" ELSE "VERIFIED"

\* "Handle API Key validity" of handleCheckResponse.
ApiKeyStateOfErrorType(type) ==
    IF type = "API_KEY_INVALID"
    THEN "INVALID"
    ELSE IF type = "SERVICE_NOT_ACTIVATED"
         THEN "NOT_ENABLED"
         ELSE "VERIFIED"

\* final_status.ok(): everything succeeded, API Key is trusted.
CheckOk(stats, final_status, response_info) ==
    Handled(stats, final_status,
            [response_info EXCEPT !.api_key_state = "VERIFIED"],
            <<"VERIFIED">>, "ok")

\* Mutant of CheckFailOpen: the Unavailable status is handed to the caller.
CheckFailOpen_Denies(stats, final_status, response_info) ==
    Handled(inc(stats, "allowed_control_plane_fault_"), final_status,
            response_info, <<"NOT_CHECKED">>, "fail_open")

\* Mutant of CheckFailOpen: the OK status keeps the message of final_status.
CheckFailOpen_KeepsMessage(stats, final_status, response_info) ==
    Handled(inc(stats, "allowed_control_plane_fault_"),
            Status(kOk, final_status.message),
            response_info, <<"NOT_CHECKED">>, "fail_open")

\* final_status is Unavailable and network_fail_open_ is set.
CheckFailOpen(stats, final_status, response_info) ==
    Handled(inc(stats, "allowed_control_plane_fault_"), OkStatus,
            response_info, <<"NOT_CHECKED">>, "fail_open")

\* Mutant of CheckFailClosed: the status is scrubbed like a producer error.
CheckFailClosed_Scrubs(stats, http_status, final_status, response_info) ==
    Handled(inc(stats, "denied_control_plane_fault_"),
            Status(kInternal, final_status.message),
            IF ~ok(http_status)
            THEN [response_info EXCEPT
                    !.error = failCallStatusToScResponseError(http_status)]
            ELSE response_info,
            <<"NOT_CHECKED">>, "fail_closed")

\* Mutant of CheckFailClosed: the denial is counted as an allowed fault.
CheckFailClosed_CountsAllowed(stats, http_status, final_status, response_info) ==
    Handled(inc(stats, "allowed_control_plane_fault_"), final_status,
            IF ~ok(http_status)
            THEN [response_info EXCEPT
                    !.error = failCallStatusToScResponseError(http_status)]
            ELSE response_info,
            <<"NOT_CHECKED">>, "fail_closed")

\* Mutant of CheckFailClosed: the error is made from final_status also when
\* the http call succeeded.
CheckFailClosed_AlwaysNetworkError(stats, http_status, final_status, response_info) ==
    Handled(inc(stats, "denied_control_plane_fault_"), final_status,
            [response_info EXCEPT
               !.error = failCallStatusToScResponseError(final_status)],
            <<"NOT_CHECKED">>, "fail_closed")

\* final_status is Unavailable and network_fail_open_ is not set.
CheckFailClosed(stats, http_status, final_status, response_info) ==
    Handled(inc(stats, "denied_control_plane_fault_"), final_status,
            IF ~ok(http_status)
            THEN [response_info EXCEPT
                    !.error = failCallStatusToScResponseError(http_status)]
            ELSE response_info,
            <<"NOT_CHECKED">>, "fail_closed")

\* Another failure and the http call failed.
CheckProducerError(stats, http_status, final_status, response_info) ==
    Handled(inc(stats, "denied_producer_error_"),
            scrubbed_status(final_status),
            [response_info EXCEPT
               !.api_key_state = "NOT_CHECKED",
               !.error = failCallStatusToScResponseError(http_status)],
            <<"NOT_CHECKED">>, "producer_error")

\* Mutant of CheckConsumerError: the service-level status is scrubbed.
CheckConsumerError_Scrubs(stats, final_status, response_info) ==
    Handled(stats, Status(kInternal, final_status.message),
            [response_info EXCEPT
               !.api_key_state =
                  ApiKeyStateOfErrorType(response_info.error.type)],
            <<ApiKeyStateOfErrorType(response_info.error.type)>>,
            "consumer_error")

\* Another failure, HTTP succeeded, but SC Check returned 4xx.
CheckConsumerError(stats, final_status, response_info) ==
    Handled(stats, final_status,
            [response_info EXCEPT
               !.api_key_state =
                  ApiKeyStateOfErrorType(response_info.error.type)],
            <<ApiKeyStateOfErrorType(response_info.error.type)>>,
            "consumer_error")

\* ClientCache::handleCheckResponse(http_status, response, on_done), run with
\* the counters `stats` and the flag network_fail_open_ = `fail_open`.
handleCheckResponse(stats, fail_open, http_status, response) ==
    LET conv == ConvertCheckResponse(response)
        response_info ==
            IF ok(http_status)
            THEN [CheckResponseInfo EXCEPT !.error = conv.error]
            ELSE CheckResponseInfo
        final_status == IF ok(http_status) THEN conv.status ELSE http_status
        stats1 ==
            IF ok(http_status)
            THEN collectScResponseErrorStats(stats, response_info.error.type)
            ELSE stats
        unavailable == [response_info EXCEPT !.api_key_state = "NOT_CHECKED"]
    IN  IF ok(final_status)
        THEN CheckOk(stats1, final_status, response_info)
        ELSE IF final_status.code = kUnavailable
             THEN IF fail_open
                  THEN CheckFailOpen(stats1, final_status, unavailable)
                  ELSE CheckFailClosed(stats1, http_status, final_status,
                                       unavailable)
             ELSE IF ~ok(http_status)
                  THEN CheckProducerError(stats1, http_status, final_status,
                                          response_info)
                  ELSE CheckConsumerError(stats1, final_status, response_info)

\* ---------------------------------------------------------- decision: Quota

\* Mutant of handleQuotaOnDone: an Unavailable status is answered with OK, as
\* the fail-open branch of handleCheckResponse does.
handleQuotaOnDone_FailOpen(stats, http_status, response) ==
    IF ok(http_status)
    THEN LET conv == ConvertAllocateQuotaResponse(response)
             response_info == [QuotaResponseInfo EXCEPT !.error = conv.error]
         IN  Handled(collectScResponseErrorStats(stats,
                                                 response_info.error.type),
                     conv.status, response_info, <<>>, "converted")
    ELSE IF http_status.code = kUnavailable
         THEN Handled(inc(stats, "allowed_control_plane_fault_"), OkStatus,
                      QuotaResponseInfo, <<>>, "producer_error")
         ELSE Handled(inc(stats, "denied_producer_error_"), http_status,
                      [QuotaResponseInfo EXCEPT
                         !.error =
                            failCallStatusToScResponseError(http_status)],
                      <<>>, "producer_error")

\* ClientCache::handleQuotaOnDone(http_status, response, on_done)
handleQuotaOnDone(stats, http_status, response) ==
    IF ok(http_status)
    THEN LET conv == ConvertAllocateQuotaResponse(response)
             response_info == [QuotaResponseInfo EXCEPT !.error = conv.error]
         IN  Handled(collectScResponseErrorStats(stats,
                                                 response_info.error.type),
                     conv.status, response_info, <<>>, "converted")
    ELSE Handled(inc(stats, "denied_producer_error_"), http_status,
                 [QuotaResponseInfo EXCEPT
                    !.error = failCallStatusToScResponseError(http_status)],
                 <<>>, "producer_error")

\* ---------------------------------------------------------- configuration

\* The default connection timeouts and numbers of retries.
kCheckDefaultTimeoutInMs == 1000
kAllocateQuotaDefaultTimeoutInMs == 1000
kReportDefaultTimeoutInMs == 2000
kCheckDefaultNumberOfRetries == 3
kAllocateQuotaDefaultNumberOfRetries == 1
kReportDefaultNumberOfRetries == 5

\* The default value for network_fail_open flag.
kDefaultNetworkFailOpen ==
    TRUE

\* An optional field of the configuration is <<>> when it is not set and
\* <<v>> when it is set to v.
has(field) ==
    field # <<>>

value(field) ==
    field[1]

\* An sc_calling_config message with no field set.
EmptyScCallingConfig ==
    [network_fail_open |-> <<>>,
     check_timeout_ms |-> <<>>, quota_timeout_ms |-> <<>>,
     report_timeout_ms |-> <<>>,
     check_retries |-> <<>>, quota_retries |-> <<>>, report_retries |-> <<>>]

\* The filter configurations of the call behaviours: one without an
\* sc_calling_config, where network_fail_open_ takes its default, and one
\* that sets network_fail_open to false.
FilterConfigs ==
    {[sc_calling_config |-> <<>>],
     [sc_calling_config |->
         <<[EmptyScCallingConfig EXCEPT !.network_fail_open = <<FALSE>>]>>]}

\* Mutant of initHttpRequestSetting: inside an sc_calling_config the has_
\* tests are left out, and a field that is not set reads as the zero value of
\* its wrapper.
initHttpRequestSetting_NoHasChecks(filter_config) ==
    IF ~has(filter_config.sc_calling_config)
    THEN [network_fail_open_ |-> kDefaultNetworkFailOpen,
          check_timeout_ms_ |-> kCheckDefaultTimeoutInMs,
          quota_timeout_ms_ |-> kAllocateQuotaDefaultTimeoutInMs,
          report_timeout_ms_ |-> kReportDefaultTimeoutInMs,
          check_retries_ |-> kCheckDefaultNumberOfRetries,
          quota_retries_ |-> kAllocateQuotaDefaultNumberOfRetries,
          report_retries_ |-> kReportDefaultNumberOfRetries]
    ELSE LET sc_calling_config == value(filter_config.sc_calling_config)
             number(field) == IF has(field) THEN value(field) ELSE 0
         IN  [network_fail_open_ |->
                 IF has(sc_calling_config.network_fail_open)
                 THEN value(sc_calling_config.network_fail_open)
                 ELSE FALSE,
              check_timeout_ms_ |-> number(sc_calling_config.check_timeout_ms),
              quota_timeout_ms_ |-> number(sc_calling_config.quota_timeout_ms),
              report_timeout_ms_ |->
                 number(sc_calling_config.report_timeout_ms),
              check_retries_ |-> number(sc_calling_config.check_retries),
              quota_retries_ |-> number(sc_calling_config.quota_retries),
              report_retries_ |-> number(sc_calling_config.report_retries)]

\* ClientCache::initHttpRequestSetting(filter_config): the members it sets.
initHttpRequestSetting(filter_config) ==
    IF ~has(filter_config.sc_calling_config)
    THEN [network_fail_open_ |-> kDefaultNetworkFailOpen,
          check_timeout_ms_ |-> kCheckDefaultTimeoutInMs,
          quota_timeout_ms_ |-> kAllocateQuotaDefaultTimeoutInMs,
          report_timeout_ms_ |-> kReportDefaultTimeoutInMs,
          check_retries_ |-> kCheckDefaultNumberOfRetries,
          quota_retries_ |-> kAllocateQuotaDefaultNumberOfRetries,
          report_retries_ |-> kReportDefaultNumberOfRetries]
    ELSE LET sc_calling_config == value(filter_config.sc_calling_config)
         IN  [network_fail_open_ |->
                 IF has(sc_calling_config.network_fail_open)
                 THEN value(sc_calling_config.network_fail_open)
                 ELSE TRUE,
              check_timeout_ms_ |->
                 IF has(sc_calling_config.check_timeout_ms)
                 THEN value(sc_calling_config.check_timeout_ms)
                 ELSE kCheckDefaultTimeoutInMs,
              quota_timeout_ms_ |->
                 IF has(sc_calling_config.quota_timeout_ms)
                 THEN value(sc_calling_config.quota_timeout_ms)
                 ELSE kAllocateQuotaDefaultTimeoutInMs,
              report_timeout_ms_ |->
                 IF has(sc_calling_config.report_timeout_ms)
                 THEN value(sc_calling_config.report_timeout_ms)
                 ELSE kReportDefaultTimeoutInMs,
              check_retries_ |->
                 IF has(sc_calling_config.check_retries)
                 THEN value(sc_calling_config.check_retries)
                 ELSE kCheckDefaultNumberOfRetries,
              quota_retries_ |->
                 IF has(sc_calling_config.quota_retries)
                 THEN value(sc_calling_config.quota_retries)
                 ELSE kAllocateQuotaDefaultNumberOfRetries,
              report_retries_ |->
                 IF has(sc_calling_config.report_retries)
                 THEN value(sc_calling_config.report_retries)
                 ELSE kReportDefaultNumberOfRetries]

\* --------------------------------------------------------- periodic timer

\* The flush intervals of the aggregation options.
kCheckAggregationFlushIntervalMs == 300000
kReportAggregationFlushIntervalMs == 1000

\* EnvoyPeriodicTimer(dispatcher, interval_ms, callback): the timer is created
\* and enabled for interval_ms. Beside the members interval_ms_ and timer_
\* the record keeps what was done with them: the interval of the last
\* enableTimer, the numbers of callback_() and enableTimer calls, the number
\* of callback_() calls made when Stop() first ran, whether timer_ was
\* dereferenced after Stop() had reset it, and whether the process died.
EnvoyPeriodicTimer(interval_ms) ==
    [interval_ms_ |-> interval_ms, timer_ |-> "armed",
     enabled_for |-> interval_ms, callbacks |-> 0, enables |-> 1,
     stopped_at |-> <<>>, null_deref |-> FALSE, crashed |-> FALSE]

\* EnvoyPeriodicTimer::Stop(): timer_.reset().
Stop(t) ==
    [t EXCEPT !.timer_ = "null",
              !.stopped_at = IF @ = <<>> THEN <<t.callbacks>> ELSE @]

\* What a build can do with timer_->enableTimer(...) on the null timer_:
\* the process dies on the access, or the access goes by unnoticed.
NullDereferenceOutcomes ==
    {"crash", "unnoticed"}

\* timer_->enableTimer(std::chrono::milliseconds(interval_ms_))
enableTimer(t, outcome) ==
    IF t.timer_ = "null"
    THEN [t EXCEPT !.null_deref = TRUE, !.crashed = (outcome = "crash")]
    ELSE [t EXCEPT !.timer_ = "armed", !.enabled_for = t.interval_ms_,
                   !.enables = @ + 1]

\* callback_(): the flush of the Aggregation Client, which may end in Stop()
\* of this timer.
callback_(t, stops) ==
    LET t1 == [t EXCEPT !.callbacks = @ + 1]
    IN  IF stops THEN Stop(t1) ELSE t1

\* EnvoyPeriodicTimer::call(): callback_(), then enableTimer.
call(t, stops, outcome) ==
    enableTimer(callback_(t, stops), outcome)

\* ------------------------------------------------------------------ state

VARIABLES
    filter_config,  \* the FilterConfig the ClientCache was constructed with
    settings,       \* network_fail_open_ and the timeout and retry members
    filter_stats_,  \* the counters of ServiceControlFilterStats
    check_cache,    \* Aggregation Client: cached CheckResponse per request
    calls,          \* the calls issued by the request path, by call id
    periodic_timer  \* the EnvoyPeriodicTimer of the Aggregation Client

vars == <<filter_config, settings, filter_stats_, check_cache, calls,
          periodic_timer>>

\* What the operations on calls never assign.
config == <<filter_config, settings>>

network_fail_open_ ==
    settings.network_fail_open_

\* A call id no call was issued under yet.
NoCall ==
    [kind |-> "none", pc |-> "idle", request |-> "",
     buffer |-> "none", cancel_fn |-> "none", http_call |-> "none",
     outcome |-> <<>>, decoded |-> <<>>, handled |-> <<>>, on_done |-> <<>>,
     cancel_invoked |-> "never", threw |-> FALSE, deletes |-> 0]

\* ClientCache::ClientCache
Init ==
    /\ filter_config \in FilterConfigs
    /\ settings = initHttpRequestSetting(filter_config)
    /\ filter_stats_ = NewFilterStats
    /\ check_cache = [r \in Requests |-> <<>>]
    /\ calls = [i \in CallIds |-> NoCall]
    /\ periodic_timer = EnvoyPeriodicTimer(kReportAggregationFlushIntervalMs)

\* -------------------------------------------------------------- transport

\* Bodies of the replies to a check call: no error, one check error of each
\* class, and a truncated body.
CheckBodies ==
    {<<>>,
     <<kErrorsField, kApiKeyInvalid>>,
     <<kErrorsField, kServiceNotActivated>>,
     <<kErrorsField, kProjectDeleted>>,
     <<kErrorsField, kNotFound>>,
     <<kErrorsField, kServiceStatusUnavailable>>,
     <<kErrorsField, kApiKeyInvalid, kErrorsField>>}

QuotaBodies ==
    {<<>>,
     <<kErrorsField, kResourceExhausted>>,
     <<kErrorsField, kResourceExhausted, kErrorsField>>}

ReportBodies ==
    {<<>>, <<kErrorsField>>}

\* The failed outcomes: a 503 reply without a body and a 401 reply whose body
\* is a well-formed message.
FailedOutcomes ==
    {[status |-> Status(kUnavailable, "503 Service Unavailable"),
      body |-> <<>>],
     [status |-> Status(kUnauthenticated, "401 Unauthorized"),
      body |-> <<kErrorsField, kApiKeyInvalid>>]}

\* The (status, body) pairs HttpCall hands to its on_done.
TransportOutcomes(bodies) ==
    {[status |-> OkStatus, body |-> b] : b \in bodies} \cup FailedOutcomes

\* ------------------------------------------------------------ Check calls

\* Mutant of check_transport_cancel_fn: cancel_fn is not assigned.
check_transport_cancel_fn_Unset ==
    "empty"

\* cancel_fn = [call]() { call->cancel(); } in check_transport: the handle
\* cancels the HttpCall created by this callCheck.
check_transport_cancel_fn ==
    "call"

\* Mutant of invoke_on_done: a handler invokes on_done a second time.
invoke_on_done_Twice(on_done, h) ==
    on_done \o <<[status |-> h.status, info |-> h.info],
                 [status |-> h.status, info |-> h.info]>>

\* Mutant of invoke_on_done: the branch of a failed http call returns without
\* invoking on_done.
invoke_on_done_NotOnFailure(on_done, h) ==
    IF h.branch = "producer_error"
    THEN on_done
    ELSE Append(on_done, [status |-> h.status, info |-> h.info])

\* on_done(status, response_info) at the end of a handler's branch.
invoke_on_done(on_done, h) ==
    Append(on_done, [status |-> h.status, info |-> h.info])

\* Mutant of delete_response: the response is not deleted.
delete_response_Leaks(c) ==
    c

\* `delete response` at the end of a callback, on the response of call c.
delete_response(c) ==
    [c EXCEPT !.buffer = "deleted", !.deletes = @ + 1]

\* What a call remembers of the handler run that completed it.
HandlerRun(http_status, response, h) ==
    [http_status |-> http_status, response |-> response,
     api_key_writes |-> h.api_key_writes, branch |-> h.branch]

\* ClientCache::callCheck(request, parent_span, on_done) to its return. The
\* Aggregation Client either answers from its cache, and on_done runs before
\* callCheck returns with cancel_fn left empty, or invokes check_transport,
\* which creates and starts the HttpCall and sets cancel_fn.
callCheck(i, request) ==
    /\ calls[i].kind = "none"
    /\ \/ /\ check_cache[request] # <<>>
          /\ LET response == check_cache[request][1]
                 h == handleCheckResponse(filter_stats_, network_fail_open_,
                                          OkStatus, response)
             IN  /\ filter_stats_' = h.stats
                 /\ calls' = [calls EXCEPT ![i] =
                        delete_response(
                          [NoCall EXCEPT
                             !.kind = "check", !.pc = "done",
                             !.buffer = "allocated", !.cancel_fn = "empty",
                             !.handled = <<HandlerRun(OkStatus, response, h)>>,
                             !.on_done = invoke_on_done(<<>>, h)])]
          /\ UNCHANGED <<config, periodic_timer, check_cache>>
       \/ /\ calls' = [calls EXCEPT ![i] =
                 [NoCall EXCEPT
                    !.kind = "check", !.pc = "inflight", !.request = request,
                    !.buffer = "allocated",
                    !.cancel_fn = check_transport_cancel_fn,
                    !.http_call = "pending"]]
          /\ UNCHANGED <<config, periodic_timer, filter_stats_, check_cache>>

\* The HttpCall of check call i reports (status, body): the callback of
\* check_transport decodes it and counts the call status, the Aggregation
\* Client caches a decoded response and runs the callback of callCheck, which
\* is handleCheckResponse, ending in `delete response`.
checkTransportDone(i, o) ==
    /\ calls[i].kind = "check"
    /\ calls[i].http_call = "pending"
    /\ LET final == processScCallTransportStatus(o.status, EmptyResponse,
                                                 o.body)
           stats1 == collectCallStatus(filter_stats_, "check_",
                                       final.status.code)
           h == handleCheckResponse(stats1, network_fail_open_, final.status,
                                    final.resp)
       IN  /\ filter_stats_' = h.stats
           /\ check_cache' =
                 IF ok(final.status)
                 THEN [check_cache EXCEPT ![calls[i].request] = <<final.resp>>]
                 ELSE check_cache
           /\ calls' = [calls EXCEPT ![i] =
                  delete_response(
                    [@ EXCEPT
                       !.pc = "done", !.request = "",
                       !.http_call = "completed",
                       !.outcome = <<o>>, !.decoded = <<final>>,
                       !.handled = <<HandlerRun(final.status, final.resp, h)>>,
                       !.on_done = invoke_on_done(@, h)])]
    /\ UNCHANGED <<config, periodic_timer>>

\* HttpCall::cancel() on the HttpCall of call c: a pending call is canceled
\* and never reports its outcome; a call that has reported is left as it is.
HttpCall_cancel(c) ==
    IF c.http_call = "pending"
    THEN [c EXCEPT !.pc = "canceled", !.request = "", !.http_call = "canceled"]
    ELSE c

\* The request path invokes the CancelFunc callCheck returned; any number of
\* times, cancel_invoked keeps where the call was at the first of them. An
\* empty std::function throws std::bad_function_call; the one check_transport
\* assigned runs call->cancel().
cancel(i) ==
    /\ calls[i].kind = "check"
    /\ LET c == IF calls[i].cancel_invoked = "never"
                THEN [calls[i] EXCEPT !.cancel_invoked = calls[i].pc]
                ELSE calls[i]
       IN  calls' = [calls EXCEPT ![i] =
               IF c.cancel_fn = "empty"
               THEN [c EXCEPT !.threw = TRUE]
               ELSE HttpCall_cancel(c)]
    /\ UNCHANGED <<config, periodic_timer, filter_stats_, check_cache>>

\* ------------------------------------------------------------ Quota calls

\* Responses the Aggregation Client answers a quota call with from its cache:
\* the empty message of a cache miss, or a cached allocation result.
CachedQuotaResponses ==
    {EmptyResponse, [errors |-> <<kResourceExhausted>>]}

\* ClientCache::callQuota(request, on_done): the Aggregation Client either
\* answers from the quota cache with OK, and the callback (handleQuotaOnDone,
\* ending in `delete response`) runs before callQuota returns, or invokes
\* quota_transport, which creates and starts the HttpCall.
callQuota(i) ==
    /\ calls[i].kind = "none"
    /\ \/ /\ \E response \in CachedQuotaResponses :
                LET h == handleQuotaOnDone(filter_stats_, OkStatus, response)
                IN  /\ filter_stats_' = h.stats
                    /\ calls' = [calls EXCEPT ![i] =
                           delete_response(
                             [NoCall EXCEPT
                                !.kind = "quota", !.pc = "done",
                                !.buffer = "allocated",
                                !.handled =
                                   <<HandlerRun(OkStatus, response, h)>>,
                                !.on_done = invoke_on_done(<<>>, h)])]
          /\ UNCHANGED <<config, periodic_timer, check_cache>>
       \/ /\ calls' = [calls EXCEPT ![i] =
                 [NoCall EXCEPT
                    !.kind = "quota", !.pc = "inflight",
                    !.buffer = "allocated", !.http_call = "pending"]]
          /\ UNCHANGED <<config, periodic_timer, filter_stats_, check_cache>>

\* The HttpCall of quota call i reports (status, body): the callback of
\* quota_transport decodes it and counts the call status, and the Aggregation
\* Client runs the callback of callQuota with the resulting status.
quotaTransportDone(i, o) ==
    /\ calls[i].kind = "quota"
    /\ calls[i].http_call = "pending"
    /\ LET final == processScCallTransportStatus(o.status, EmptyResponse,
                                                 o.body)
           stats1 == collectCallStatus(filter_stats_, "allocate_quota_",
                                       final.status.code)
           h == handleQuotaOnDone(stats1, final.status, final.resp)
       IN  /\ filter_stats_' = h.stats
           /\ calls' = [calls EXCEPT ![i] =
                  delete_response(
                    [@ EXCEPT
                       !.pc = "done", !.http_call = "completed",
                       !.outcome = <<o>>, !.decoded = <<final>>,
                       !.handled = <<HandlerRun(final.status, final.resp, h)>>,
                       !.on_done = invoke_on_done(@, h)])]
    /\ UNCHANGED <<config, periodic_timer, check_cache>>

\* ----------------------------------------------------------- Report calls

\* ClientCache::callReport(request): the Aggregation Client either keeps the
\* report for a later flush and runs the callback, which is
\* `delete response`, before callReport returns, or invokes report_transport,
\* which creates and starts the HttpCall.
callReport(i) ==
    /\ calls[i].kind = "none"
    /\ \/ calls' = [calls EXCEPT ![i] =
              delete_response(
                [NoCall EXCEPT
                   !.kind = "report", !.pc = "done", !.buffer = "allocated"])]
       \/ calls' = [calls EXCEPT ![i] =
              [NoCall EXCEPT
                 !.kind = "report", !.pc = "inflight",
                 !.buffer = "allocated", !.http_call = "pending"]]
    /\ UNCHANGED <<config, periodic_timer, filter_stats_, check_cache>>

\* The HttpCall of report call i reports (status, body): the callback of
\* report_transport decodes it and counts the call status, and the
\* Aggregation Client runs the callback of callReport.
reportTransportDone(i, o) ==
    /\ calls[i].kind = "report"
    /\ calls[i].http_call = "pending"
    /\ LET final == processScCallTransportStatus(o.status, EmptyResponse,
                                                 o.body)
       IN  /\ filter_stats_' = collectCallStatus(filter_stats_, "report_",
                                                 final.status.code)
           /\ calls' = [calls EXCEPT ![i] =
                  delete_response(
                    [@ EXCEPT
                       !.pc = "done", !.http_call = "completed",
                       !.outcome = <<o>>, !.decoded = <<final>>])]
    /\ UNCHANGED <<config, periodic_timer, check_cache>>

\* ---------------------------------------------------------- specification

Next ==
    \/ \E i \in CallIds, request \in Requests : callCheck(i, request)
    \/ \E i \in CallIds, o \in TransportOutcomes(CheckBodies) :
          checkTransportDone(i, o)
    \/ \E i \in CallIds : cancel(i)
    \/ \E i \in CallIds : callQuota(i)
    \/ \E i \in CallIds, o \in TransportOutcomes(QuotaBodies) :
          quotaTransportDone(i, o)
    \/ \E i \in CallIds : callReport(i)
    \/ \E i \in CallIds, o \in TransportOutcomes(ReportBodies) :
          reportTransportDone(i, o)

Spec ==
    Init /\ [][Next]_vars

\* ------------------------------------------------------------- properties

\* The check calls that have been issued.
CheckCalls ==
    {i \in CallIds : calls[i].kind = "check"}

\* The check calls whose terminal outcome exists: handleCheckResponse ran.
HandledChecks ==
    {i \in CheckCalls : calls[i].handled # <<>>}

\* The status handleCheckResponse branched on in the run that completed
\* check call i: the converted status after a successful http call and the
\* http status otherwise.
FinalStatus(i) ==
    IF ok(calls[i].handled[1].http_status)
    THEN ConvertCheckResponse(calls[i].handled[1].response).status
    ELSE calls[i].handled[1].http_status

\* C1: a check call that was not canceled while in flight has had its on_done
\* invoked exactly once as soon as its terminal outcome exists (the reply of
\* its HttpCall was delivered, or the cache answered), on every branch of
\* handleCheckResponse, with an OK or a non-OK status; before that it has not
\* been invoked, and invoking the cancel handle afterwards adds no second
\* invocation.
C1_OnDoneExactlyOnce ==
    \A i \in CheckCalls :
       /\ Len(calls[i].on_done) = Len(calls[i].handled)
       /\ Len(calls[i].on_done) <= 1
       /\ calls[i].pc = "inflight" => calls[i].on_done = <<>>
       /\ (calls[i].http_call = "completed" \/ calls[i].cancel_fn = "empty")
             => /\ Len(calls[i].on_done) = 1
                /\ calls[i].handled[1].branch \in
                      {"ok", "fail_open", "fail_closed", "producer_error",
                       "consumer_error"}

\* C1 witness: a check call denied fail-closed whose cancel handle was invoked
\* after its on_done had fired, next to one answered from the cache.
C1_Witness ==
    \E i, j \in CheckCalls :
       /\ calls[i].handled # <<>>
       /\ calls[i].handled[1].branch = "fail_closed"
       /\ calls[i].cancel_invoked = "done"
       /\ Len(calls[i].on_done) = 1
       /\ ~ok(calls[i].on_done[1].status)
       /\ calls[j].cancel_fn = "empty"
       /\ calls[j].cancel_invoked = "done"
       /\ Len(calls[j].on_done) = 1

\* C2: once the cancel handle of a check call was invoked while the call was
\* in flight (callCheck had returned, its HttpCall had not reported), on_done
\* of that call is never invoked and no outcome of it is ever delivered.
C2_NoOnDoneAfterCancel ==
    \A i \in CheckCalls :
       calls[i].cancel_invoked = "inflight"
          => /\ calls[i].on_done = <<>>
             /\ calls[i].outcome = <<>>
             /\ calls[i].handled = <<>>

\* C2 witness: a check call canceled in flight while another check call has
\* completed through its own HttpCall.
C2_Witness ==
    \E i, j \in CheckCalls :
       /\ calls[i].cancel_invoked = "inflight"
       /\ calls[i].pc = "canceled"
       /\ calls[j].http_call = "completed"
       /\ Len(calls[j].on_done) = 1

\* C3: with network_fail_open_ set, a check call whose final status is
\* Unavailable is answered with the OK status and api_key_state NOT_CHECKED.
C3_FailOpen ==
    \A i \in HandledChecks :
       (network_fail_open_ /\ FinalStatus(i).code = kUnavailable)
          => /\ calls[i].on_done[1].status = OkStatus
             /\ calls[i].on_done[1].info.api_key_state = "NOT_CHECKED"

\* C3 witness: fail-open applied to a 503 of the transport.
C3_Witness ==
    \E i \in HandledChecks :
       /\ network_fail_open_
       /\ calls[i].outcome # <<>>
       /\ calls[i].outcome[1].status.code = kUnavailable
       /\ calls[i].on_done[1].status = OkStatus

\* C4: with network_fail_open_ not set, a check call whose final status is
\* Unavailable is answered with a status of code Unavailable (not Internal,
\* not OK) and api_key_state NOT_CHECKED.
C4_FailClosed ==
    \A i \in HandledChecks :
       (~network_fail_open_ /\ FinalStatus(i).code = kUnavailable)
          => /\ calls[i].on_done[1].status.code = kUnavailable
             /\ calls[i].on_done[1].info.api_key_state = "NOT_CHECKED"

\* C4 witness: fail-closed applied to a 503 of the transport.
C4_Witness ==
    \E i \in HandledChecks :
       /\ ~network_fail_open_
       /\ calls[i].outcome # <<>>
       /\ calls[i].outcome[1].status.code = kUnavailable
       /\ calls[i].on_done[1].status.code = kUnavailable

\* The api key state the Check decision table gives for (http call succeeded,
\* code of the final status, service-level error type).
ExpectedApiKeyState(http_ok, code, type) ==
    IF code = kOk
    THEN "VERIFIED"
    ELSE IF code = kUnavailable \/ ~http_ok
         THEN "NOT_CHECKED"
         ELSE CASE type = "API_KEY_INVALID" -> "INVALID"
                [] type = "SERVICE_NOT_ACTIVATED" -> "NOT_ENABLED"
                [] OTHER -> "VERIFIED"

\* The branch of handleCheckResponse that belongs to (http call succeeded,
\* code of the final status, network_fail_open_).
ExpectedBranch(http_ok, code, fail_open) ==
    IF code = kOk
    THEN "ok"
    ELSE IF code = kUnavailable
         THEN IF fail_open THEN "fail_open" ELSE "fail_closed"
         ELSE IF http_ok THEN "consumer_error" ELSE "producer_error"

C6_ServiceLevelVerbatim ==
    \A i \in HandledChecks :
       LET run == calls[i].handled[1]
           conv == ConvertCheckResponse(run.response)
       IN  (ok(run.http_status) /\ ~ok(conv.status)
              /\ conv.status.code # kUnavailable)
              => /\ calls[i].on_done[1].status = conv.status
                 /\ calls[i].on_done[1].info.error = conv.error

\* C6 witness: the reply carries API_KEY_INVALID and on_done gets
\* InvalidArgument with api_key_state INVALID.
C6_Witness ==
    \E i \in HandledChecks :
       /\ calls[i].outcome # <<>>
       /\ ok(calls[i].outcome[1].status)
       /\ calls[i].on_done[1].info.error.type = "API_KEY_INVALID"
       /\ calls[i].on_done[1].status.code = kInvalidArgument
       /\ calls[i].on_done[1].info.api_key_state = "INVALID"

\* The check calls whose HttpCall reported a failure other than Unavailable.
ProducerFaults ==
    {i \in HandledChecks :
        /\ calls[i].outcome # <<>>
        /\ ~ok(calls[i].outcome[1].status)
        /\ calls[i].outcome[1].status.code # kUnavailable}

\* C7: when the HttpCall of a check call fails with a code other than
\* Unavailable, on_done gets a status of code Internal, never the code of the
\* transport, api_key_state NOT_CHECKED, and an ScResponseError that names
\* the code of the transport and is marked as a network error.
C7_ProducerFaultInternal ==
    \A i \in ProducerFaults :
       LET transport == calls[i].outcome[1].status
       IN  /\ calls[i].on_done[1].status.code = kInternal
           /\ calls[i].on_done[1].status.code # transport.code
           /\ calls[i].on_done[1].info.api_key_state = "NOT_CHECKED"
           /\ calls[i].on_done[1].info.error.name =
                 StatusCodeToString(transport.code)
           /\ calls[i].on_done[1].info.error.is_network_error

\* C7 witness: a 401 of the transport answered with Internal.
C7_Witness ==
    \E i \in ProducerFaults :
       /\ calls[i].outcome[1].status.code = kUnauthenticated
       /\ calls[i].on_done[1].status.code = kInternal
       /\ calls[i].on_done[1].info.error.name = "UNAUTHENTICATED"

\* C8 as stated: the status handed to on_done for such a fault carries none
\* of the error text of the transport.
C8_Original_NoTransportText ==
    \A i \in ProducerFaults :
       calls[i].on_done[1].status.message
          # calls[i].outcome[1].status.message

\* C8 amended: the status handed to on_done for such a fault has the code
\* Internal and, as its message, the message of the transport status
\* unchanged; the ScResponseError holds the name of the transport code and not
\* the message.
C8_ScrubbedKeepsMessage ==
    \A i \in ProducerFaults :
       LET transport == calls[i].outcome[1].status
       IN  /\ calls[i].on_done[1].status =
                 Status(kInternal, transport.message)
           /\ calls[i].on_done[1].info.error.name # transport.message

\* C8 witness: on_done got "401 Unauthorized" as the message of an Internal
\* status.
C8_Witness ==
    \E i \in ProducerFaults :
       /\ calls[i].on_done[1].status.code = kInternal
       /\ calls[i].on_done[1].status.message = "401 Unauthorized"

\* The calls of any type whose HttpCall has reported.
ReportedCalls ==
    {i \in CallIds : calls[i].outcome # <<>>}

\* C9: processScCallTransportStatus, for check, quota and report calls alike:
\* a failed transport status is returned unchanged and the response object is
\* left as it was (the body is not parsed into it); an OK status with a body
\* that does not parse gives a status of code InvalidArgument; an OK status
\* with a body that parses gives the OK status and the response object holds
\* the parsed message.
C9_ProcessTransportStatus ==
    \A i \in ReportedCalls :
       LET o == calls[i].outcome[1]
           final == calls[i].decoded[1]
           parsed == ParseFromString(o.body)
       IN  /\ ~ok(o.status)
              => (final.status = o.status /\ final.resp = EmptyResponse)
           /\ (ok(o.status) /\ ~parsed.ok)
              => final.status.code = kInvalidArgument
           /\ (ok(o.status) /\ parsed.ok)
              => (final.status = OkStatus /\ final.resp = parsed.msg)

\* C9 witness: a report call with a truncated body, a quota call with a body
\* that parses to a message with an error, or a failed check call that came
\* with a well-formed body, two of them side by side.
C9_Witness ==
    \E i, j \in ReportedCalls :
       /\ calls[i].kind = "check"
       /\ ~ok(calls[i].outcome[1].status)
       /\ ParseFromString(calls[i].outcome[1].body).msg # EmptyResponse
       /\ calls[i].decoded[1].resp = EmptyResponse
       /\ calls[j].kind \in {"quota", "report"}
       /\ ok(calls[j].outcome[1].status)
       /\ ~ParseFromString(calls[j].outcome[1].body).ok
       /\ calls[j].decoded[1].status.code = kInvalidArgument

\* The check and quota calls completed by a handler that was handed a decode
\* error or an operator fault: a failed status other than Unavailable.
FaultyCalls ==
    {i \in CallIds :
        /\ calls[i].kind \in {"check", "quota"}
        /\ calls[i].handled # <<>>
        /\ ~ok(calls[i].handled[1].http_status)
        /\ calls[i].handled[1].http_status.code # kUnavailable}

\* C10: for check and quota calls alike such a status never reaches on_done
\* as it is: on_done gets a status of code Internal.
C10_FaultsScrubbed ==
    \A i \in FaultyCalls :
       /\ calls[i].on_done[1].status # calls[i].handled[1].http_status
       /\ calls[i].on_done[1].status.code = kInternal

\* The quota calls completed by a run of handleQuotaOnDone.
HandledQuotas ==
    {i \in CallIds : calls[i].kind = "quota" /\ calls[i].handled # <<>>}

\* C11: a quota call whose status from the Aggregation Client is OK is
\* answered with the status and the ScResponseError of the conversion, as
\* they are; and what a quota call is answered with is decided by that status
\* and the response alone, for both values of network_fail_open_: an
\* Unavailable status is handed to on_done as Unavailable.
C11_QuotaPassThrough ==
    \A i \in HandledQuotas :
       LET run == calls[i].handled[1]
           conv == ConvertAllocateQuotaResponse(run.response)
       IN  /\ ok(run.http_status)
              => /\ calls[i].on_done[1].status = conv.status
                 /\ calls[i].on_done[1].info = [error |-> conv.error]
           /\ run.http_status.code = kUnavailable
              => calls[i].on_done[1].status = run.http_status
           /\ filter_stats_.filter_["allowed_control_plane_fault_"]
                 = Cardinality({j \in HandledChecks :
                                   calls[j].handled[1].branch = "fail_open"})

\* C11 witness: with network_fail_open_ set, one quota call answered with
\* the denial of the conversion and one with the 503 of its transport.
C11_Witness ==
    \E i, j \in HandledQuotas :
       /\ network_fail_open_
       /\ ok(calls[i].handled[1].http_status)
       /\ calls[i].on_done[1].status.code = kResourceExhausted
       /\ calls[i].on_done[1].info.error.type = "CONSUMER_QUOTA"
       /\ calls[j].handled[1].http_status.code = kUnavailable
       /\ calls[j].on_done[1].status.code = kUnavailable

\* The quota calls that have been issued.
QuotaCalls ==
    {i \in CallIds : calls[i].kind = "quota"}

\* C12: on_done of a quota call is invoked exactly once for the completion
\* the Aggregation Client delivers, on the branch of a successful http call
\* and on the branch of a failed one, and not before that completion.
C12_QuotaOnDoneOnce ==
    \A i \in QuotaCalls :
       /\ Len(calls[i].handled) <= 1
       /\ calls[i].pc = "inflight"
             => (calls[i].handled = <<>> /\ calls[i].on_done = <<>>)
       /\ calls[i].pc = "done"
             => /\ Len(calls[i].handled) = 1
                /\ Len(calls[i].on_done) = 1
                /\ calls[i].handled[1].branch
                      = IF ok(calls[i].handled[1].http_status)
                        THEN "converted"
                        ELSE "producer_error"

\* C12 witness: a quota call completed on each branch, each with one on_done.
C12_Witness ==
    \E i, j \in QuotaCalls :
       /\ calls[i].pc = "done"
       /\ calls[i].handled[1].branch = "converted"
       /\ Len(calls[i].on_done) = 1
       /\ calls[j].pc = "done"
       /\ calls[j].handled[1].branch = "producer_error"
       /\ Len(calls[j].on_done) = 1

\* The report calls that have been issued.
ReportCalls ==
    {i \in CallIds : calls[i].kind = "report"}

\* What the decisions of Check and Quota calls are computed from, apart from
\* the call's own response: the settings, the check cache and the counters of
\* the filter.
DecisionState ==
    <<config, check_cache, filter_stats_.filter_>>

\* A report call: nothing is delivered to a caller whatever the outcome, and
\* the callback of callReport has released the response exactly once when the
\* call is done and not before.
ReportFireAndForget ==
    \A i \in ReportCalls :
       /\ calls[i].on_done = <<>>
       /\ calls[i].handled = <<>>
       /\ calls[i].cancel_fn = NoCall.cancel_fn
       /\ calls[i].pc = "inflight"
             => (calls[i].buffer = "allocated" /\ calls[i].deletes = 0)
       /\ calls[i].pc = "done"
             => (calls[i].buffer = "deleted" /\ calls[i].deletes = 1)

\* A step of a report call changes that call and its call-status counter and
\* nothing a Check or Quota decision is computed from.
ReportStepIsolated ==
    \A i \in CallIds :
       (calls'[i].kind = "report" /\ calls'[i] # calls[i])
          => /\ DecisionState' = DecisionState
             /\ \A j \in CallIds \ {i} : calls'[j] = calls[j]
             /\ filter_stats_'.check_ = filter_stats_.check_
             /\ filter_stats_'.allocate_quota_ = filter_stats_.allocate_quota_

\* C13: Report is fire-and-forget: whatever the outcome status, no result is
\* delivered to a caller, the cleanup callback runs exactly once and releases
\* the response buffer, and the outcome changes nothing a later Check or
\* Quota decision depends on.
C13_ReportFireAndForget ==
    []ReportFireAndForget /\ [][ReportStepIsolated]_vars

\* C13 witness: one report completed by a failed transport call and one by a
\* successful one, each released once, nothing delivered.
C13_Witness ==
    \E i, j \in ReportCalls :
       /\ calls[i].outcome # <<>>
       /\ ~ok(calls[i].outcome[1].status)
       /\ calls[i].deletes = 1
       /\ calls[i].on_done = <<>>
       /\ calls[j].outcome # <<>>
       /\ ok(calls[j].outcome[1].status)
       /\ calls[j].deletes = 1
       /\ calls[j].on_done = <<>>

\* The call-status counters of each kind of call.
CallStatsOf ==
    [check |-> "check_", quota |-> "allocate_quota_", report |-> "report_"]

CallKinds ==
    {"check", "quota", "report"}

\* The calls of a kind that have completed: the callback of callCheck,
\* callQuota or callReport has run.
CompletedCalls(kind) ==
    {i \in CallIds : calls[i].kind = kind /\ calls[i].pc = "done"}

\* The calls of a kind whose HttpCall has reported, with the code of the
\* status processScCallTransportStatus made of it.
TransportCompleted(kind, code) ==
    {i \in CallIds : /\ calls[i].kind = kind
                     /\ calls[i].outcome # <<>>
                     /\ calls[i].decoded[1].status.code = code}

RECURSIVE SumOfCounters(_, _)
SumOfCounters(counters, codes) ==
    IF codes = {}
    THEN 0
    ELSE LET c == CHOOSE x \in codes : TRUE
         IN  counters[c] + SumOfCounters(counters, codes \ {c})

\* C14 as stated: every completed call has incremented one call-status
\* counter of its kind, so the counters of a kind add up to the number of
\* completed calls of that kind.
C14_Original_OnePerCompletedCall ==
    \A kind \in CallKinds :
       SumOfCounters(filter_stats_[CallStatsOf[kind]], StatusCodes)
          = Cardinality(CompletedCalls(kind))

\* C14, amended: a call increments a call-status counter when its HttpCall
\* reports, and then exactly one, by one: the counter of its kind and of the
\* code of its final status. A call the Aggregation Client serves without
\* the transport increments none.
C14_OnePerTransportCompletion ==
    \A kind \in CallKinds : \A code \in StatusCodes :
       filter_stats_[CallStatsOf[kind]][code]
          = Cardinality(TransportCompleted(kind, code))

\* C14 witness: a check counted under the code of a decode error next to a
\* completed call that was served without the transport.
C14_Witness ==
    \E i, j \in CallIds :
       /\ i \in TransportCompleted("check", kInvalidArgument)
       /\ filter_stats_.check_[kInvalidArgument] = 1
       /\ ok(calls[i].outcome[1].status)
       /\ \E kind \in CallKinds :
             /\ j \in CompletedCalls(kind)
             /\ calls[j].outcome = <<>>
             /\ SumOfCounters(filter_stats_[CallStatsOf[kind]],
                              StatusCodes) = 0

\* The check completions classified Unavailable.
UnavailableChecks ==
    {i \in HandledChecks : FinalStatus(i).code = kUnavailable}

\* C15: every check completion classified Unavailable has incremented one of
\* the two control-plane-fault counters by one, allowed_control_plane_fault_
\* when network_fail_open_ is set and denied_control_plane_fault_ when it is
\* not, and nothing else has changed either counter.
C15_ControlPlaneFaultCounters ==
    /\ filter_stats_.filter_["allowed_control_plane_fault_"]
          = IF network_fail_open_ THEN Cardinality(UnavailableChecks) ELSE 0
    /\ filter_stats_.filter_["denied_control_plane_fault_"]
          = IF network_fail_open_ THEN 0 ELSE Cardinality(UnavailableChecks)

\* C15 witness: under fail-closed, one check classified Unavailable and
\* counted as denied next to a completed check with another outcome.
C15_Witness ==
    \E i, j \in HandledChecks :
       /\ ~network_fail_open_
       /\ i \in UnavailableChecks
       /\ j \notin UnavailableChecks
       /\ filter_stats_.filter_["denied_control_plane_fault_"] = 1
       /\ filter_stats_.filter_["allowed_control_plane_fault_"] = 0

\* C16: invoking the cancel handle a check call returned is safe: it raises
\* no error, whether the call was served from the cache without
\* check_transport being invoked or has already completed, and then it has
\* no effect; it cancels only the HttpCall of that same call.
C16_CancelHandleSafe ==
    \A i \in CheckCalls :
       /\ ~calls[i].threw
       /\ calls[i].cancel_invoked = "done" => calls[i].pc = "done"
       /\ calls[i].pc = "canceled" => calls[i].cancel_invoked = "inflight"

\* ------------------------------------------------- configuration behaviours

\* The calls issued in a behaviour that starts from any configuration.
MaxConfigCalls == 1

ConfigCallIds ==
    1 .. MaxConfigCalls

\* Values a configuration sets the six call settings to, each different from
\* the default of its field.
ConfiguredValues ==
    [check_timeout_ms |-> 1500, quota_timeout_ms |-> 1700,
     report_timeout_ms |-> 2500,
     check_retries |-> 4, quota_retries |-> 2, report_retries |-> 6]

CallSettingFields ==
    DOMAIN ConfiguredValues

\* Every filter configuration over these values: no sc_calling_config, or one
\* in which each of the six call settings is set or not, independently, and
\* network_fail_open is not set or set to false.
AllFilterConfigs ==
    {[sc_calling_config |-> <<>>]}
    \cup
    {[sc_calling_config |->
         <<[f \in DOMAIN EmptyScCallingConfig |->
               IF f = "network_fail_open"
               THEN fail_open
               ELSE IF f \in set THEN <<ConfiguredValues[f]>> ELSE <<>>]>>] :
       set \in SUBSET CallSettingFields, fail_open \in {<<>>, <<FALSE>>}}

\* ClientCache::ClientCache with any of these configurations.
InitConfig ==
    /\ filter_config \in AllFilterConfigs
    /\ settings = initHttpRequestSetting(filter_config)
    /\ filter_stats_ = NewFilterStats
    /\ check_cache = [r \in Requests |-> <<>>]
    /\ calls = [i \in CallIds |-> NoCall]
    /\ periodic_timer = EnvoyPeriodicTimer(kReportAggregationFlushIntervalMs)

NextConfig ==
    \/ \E i \in ConfigCallIds, request \in Requests : callCheck(i, request)
    \/ \E i \in ConfigCallIds, o \in TransportOutcomes(CheckBodies) :
          checkTransportDone(i, o)
    \/ \E i \in ConfigCallIds : cancel(i)
    \/ \E i \in ConfigCallIds : callQuota(i)
    \/ \E i \in ConfigCallIds, o \in TransportOutcomes(QuotaBodies) :
          quotaTransportDone(i, o)
    \/ \E i \in ConfigCallIds : callReport(i)
    \/ \E i \in ConfigCallIds, o \in TransportOutcomes(ReportBodies) :
          reportTransportDone(i, o)

SpecConfig ==
    InitConfig /\ [][NextConfig]_vars

\* The fixed defaults of the six call settings.
DefaultCallSettings ==
    [check_timeout_ms |-> 1000, quota_timeout_ms |-> 1000,
     report_timeout_ms |-> 2000,
     check_retries |-> 3, quota_retries |-> 1, report_retries |-> 5]

\* The member of ClientCache each field of sc_calling_config sets.
MemberOf ==
    [check_timeout_ms |-> "check_timeout_ms_",
     quota_timeout_ms |-> "quota_timeout_ms_",
     report_timeout_ms |-> "report_timeout_ms_",
     check_retries |-> "check_retries_", quota_retries |-> "quota_retries_",
     report_retries |-> "report_retries_"]

\* Field f is set in the configuration: the section is there and the field
\* in it.
Configured(f) ==
    /\ has(filter_config.sc_calling_config)
    /\ has(value(filter_config.sc_calling_config)[f])

ConfiguredValue(f) ==
    value(value(filter_config.sc_calling_config)[f])

\* Each of the six call settings, by itself, is the configured value when its
\* field is set and its default otherwise, and network_fail_open_ is true
\* unless the configuration sets it.
PerFieldFallback ==
    /\ \A f \in CallSettingFields :
          settings[MemberOf[f]] = IF Configured(f)
                                  THEN ConfiguredValue(f)
                                  ELSE DefaultCallSettings[f]
    /\ settings.network_fail_open_ = IF Configured("network_fail_open")
                                     THEN ConfiguredValue("network_fail_open")
                                     ELSE TRUE

\* C17: configuration fallback is per field: each of the six call settings
\* takes its default (1000/3, 1000/1, 2000/5) when its field is omitted and
\* the configured value when it is set, whatever else is set;
\* network_fail_open_ is true unless configured; and no Check, Quota or
\* Report operation changes the configuration or any of these values.
C17_ConfigFallbackPerField ==
    []PerFieldFallback /\ [][config' = config]_vars

\* C17 witness: an sc_calling_config that sets one timeout and leaves the
\* other fields and the flag out, after a call has completed.
C17_Witness ==
    /\ Configured("check_timeout_ms")
    /\ \A f \in CallSettingFields \ {"check_timeout_ms"} : ~Configured(f)
    /\ ~Configured("network_fail_open")
    /\ settings.check_timeout_ms_ = ConfiguredValues.check_timeout_ms
    /\ settings.check_retries_ = DefaultCallSettings.check_retries
    /\ settings.network_fail_open_
    /\ \E i \in ConfigCallIds : calls[i].pc = "done"

\* C18: under fail-closed, a check completion classified Unavailable hands
\* on_done the error made from the transport status (a network error named
\* after the transport code) when the http call itself failed, and the error
\* of the conversion, unchanged, when the http call succeeded and the
\* conversion gave Unavailable.
C18_FailClosedError ==
    \A i \in UnavailableChecks :
       ~network_fail_open_
          => LET run == calls[i].handled[1]
                 error == calls[i].on_done[1].info.error
             IN  IF ok(run.http_status)
                 THEN error = ConvertCheckResponse(run.response).error
                 ELSE error = [name |-> StatusCodeToString(
                                           run.http_status.code),
                               is_network_error |-> TRUE,
                               type |-> "ERROR_TYPE_UNSPECIFIED"]

\* C18 witness: under fail-closed, one check denied after its http call
\* failed and one denied after the conversion of a successful reply gave
\* Unavailable.
C18_Witness ==
    \E i, j \in UnavailableChecks :
       /\ ~network_fail_open_
       /\ ~ok(calls[i].handled[1].http_status)
       /\ calls[i].on_done[1].info.error.is_network_error
       /\ ok(calls[j].handled[1].http_status)
       /\ calls[j].on_done[1].info.error.name = "SERVICE_STATUS_UNAVAILABLE"
       /\ calls[j].on_done[1].status.code = kUnavailable

\* An error field that carries no detail.
EmptyError ==
    [name |-> "", is_network_error |-> FALSE,
     type |-> "ERROR_TYPE_UNSPECIFIED"]

\* C19 as stated: under fail-open, a check completion classified Unavailable
\* hands on_done the OK status with an empty message and an error field
\* without detail, from the transport status or from the conversion.
C19_Original_NoErrorDetail ==
    \A i \in UnavailableChecks :
       network_fail_open_
          => /\ calls[i].on_done[1].status = [code |-> kOk, message |-> ""]
             /\ calls[i].on_done[1].info.error = EmptyError

\* C19, amended: under fail-open, a check completion classified Unavailable
\* hands on_done the OK status with an empty message; the error field has no
\* detail of the transport status when the http call failed, and is the
\* error of the conversion, unchanged, when the http call succeeded.
C19_FailOpenError ==
    \A i \in UnavailableChecks :
       network_fail_open_
          => LET run == calls[i].handled[1]
             IN  /\ calls[i].on_done[1].status
                       = [code |-> kOk, message |-> ""]
                 /\ calls[i].on_done[1].info.error
                       = IF ok(run.http_status)
                         THEN ConvertCheckResponse(run.response).error
                         ELSE EmptyError

\* C19 witness: under fail-open, one check allowed after its http call
\* failed, with an empty error field, and one allowed after the conversion
\* of a successful reply gave Unavailable, with the error of the conversion.
C19_Witness ==
    \E i, j \in UnavailableChecks :
       /\ network_fail_open_
       /\ ~ok(calls[i].handled[1].http_status)
       /\ calls[i].handled[1].http_status.message # ""
       /\ calls[i].on_done[1].info.error = EmptyError
       /\ ok(calls[j].handled[1].http_status)
       /\ calls[j].on_done[1].status.code = kOk
       /\ calls[j].on_done[1].info.error.name = "SERVICE_STATUS_UNAVAILABLE"

\* The error types collectScResponseErrorStats was invoked with: one
\* invocation per run of handleCheckResponse or handleQuotaOnDone after a
\* successful http call, with the error type of the conversion.
ErrorTypeOfInvocation ==
    [i \in {j \in HandledChecks \cup HandledQuotas :
               ok(calls[j].handled[1].http_status)} |->
        IF calls[i].kind = "check"
        THEN ConvertCheckResponse(calls[i].handled[1].response).error.type
        ELSE ConvertAllocateQuotaResponse(
                calls[i].handled[1].response).error.type]

InvocationsWith(error_types) ==
    {i \in DOMAIN ErrorTypeOfInvocation :
        ErrorTypeOfInvocation[i] \in error_types}

\* C20: an invocation of collectScResponseErrorStats increments at most one
\* denial counter: CONSUMER_BLOCKED only denied_consumer_blocked_;
\* CONSUMER_ERROR, SERVICE_NOT_ACTIVATED and API_KEY_INVALID only
\* denied_consumer_error_; CONSUMER_QUOTA only denied_consumer_quota_; any
\* other error type none. So each counter is the number of invocations with
\* its error types.
C20_OneDenialCounter ==
    /\ filter_stats_.filter_["denied_consumer_blocked_"]
          = Cardinality(InvocationsWith({"CONSUMER_BLOCKED"}))
    /\ filter_stats_.filter_["denied_consumer_error_"]
          = Cardinality(InvocationsWith({"CONSUMER_ERROR",
                                         "SERVICE_NOT_ACTIVATED",
                                         "API_KEY_INVALID"}))
    /\ filter_stats_.filter_["denied_consumer_quota_"]
          = Cardinality(InvocationsWith({"CONSUMER_QUOTA"}))

\* C20 witness: an invocation with CONSUMER_QUOTA and one with
\* CONSUMER_ERROR, each counted once in its own counter.
C20_Witness ==
    /\ InvocationsWith({"CONSUMER_QUOTA"}) # {}
    /\ InvocationsWith({"CONSUMER_ERROR"}) # {}
    /\ filter_stats_.filter_["denied_consumer_quota_"] = 1
    /\ filter_stats_.filter_["denied_consumer_error_"] = 1
    /\ filter_stats_.filter_["denied_consumer_blocked_"] = 0

\* C21: the response a check call allocated is released exactly once,
\* whether the call completed or was canceled before its HttpCall reported;
\* a completed call has released it after invoking on_done, and it is never
\* released twice. A canceled call takes no further step of its own, so
\* what it has not released by then it never releases.
C21_ResponseReleasedOnce ==
    \A i \in CheckCalls :
       /\ calls[i].deletes <= 1
       /\ calls[i].buffer = "deleted" => Len(calls[i].on_done) = 1
       /\ calls[i].pc \in {"done", "canceled"}
             => (calls[i].buffer = "deleted" /\ calls[i].deletes = 1)

\* --------------------------------------------------------- timer behaviours

\* The firings of the periodic timer and the calls issued in a behaviour
\* with the timer running.
MaxFirings == 2
MaxTimerCalls == 1

TimerCallIds ==
    1 .. MaxTimerCalls

\* The intervals the Aggregation Client asks a periodic timer for.
FlushIntervals ==
    {kReportAggregationFlushIntervalMs, kCheckAggregationFlushIntervalMs}

\* ClientCache::ClientCache, with the periodic timer the Aggregation Client
\* creates through options.periodic_timer.
InitTimer ==
    /\ filter_config \in FilterConfigs
    /\ settings = initHttpRequestSetting(filter_config)
    /\ filter_stats_ = NewFilterStats
    /\ check_cache = [r \in Requests |-> <<>>]
    /\ calls = [i \in CallIds |-> NoCall]
    /\ \E interval_ms \in FlushIntervals :
          periodic_timer = EnvoyPeriodicTimer(interval_ms)

\* The process runs: no access to a reset timer_ has ended it.
Alive ==
    ~periodic_timer.crashed

\* The dispatcher fires the enabled timer, which runs call(); the flush may
\* or may not end in Stop().
timerFires(stops, outcome) ==
    /\ Alive
    /\ periodic_timer.timer_ = "armed"
    /\ periodic_timer.callbacks < MaxFirings
    /\ periodic_timer' = call(periodic_timer, stops, outcome)
    /\ UNCHANGED <<config, filter_stats_, check_cache, calls>>

\* The Aggregation Client stops its timer outside a firing.
stopTimer ==
    /\ Alive
    /\ periodic_timer' = Stop(periodic_timer)
    /\ UNCHANGED <<config, filter_stats_, check_cache, calls>>

NextTimer ==
    \/ \E stops \in BOOLEAN, outcome \in NullDereferenceOutcomes :
          timerFires(stops, outcome)
    \/ stopTimer
    \/ \E i \in TimerCallIds, request \in Requests :
          Alive /\ callCheck(i, request)
    \/ \E i \in TimerCallIds, o \in TransportOutcomes(CheckBodies) :
          Alive /\ checkTransportDone(i, o)
    \/ \E i \in TimerCallIds : Alive /\ cancel(i)
    \/ \E i \in TimerCallIds : Alive /\ callQuota(i)
    \/ \E i \in TimerCallIds, o \in TransportOutcomes(QuotaBodies) :
          Alive /\ quotaTransportDone(i, o)
    \/ \E i \in TimerCallIds : Alive /\ callReport(i)
    \/ \E i \in TimerCallIds, o \in TransportOutcomes(ReportBodies) :
          Alive /\ reportTransportDone(i, o)

SpecTimer ==
    InitTimer /\ [][NextTimer]_vars

\* C22: the periodic timer: every firing has invoked the callback once and
\* enabled the timer again for the same interval; once Stop() has run the
\* callback is not invoked again and the timer is neither enabled again nor
\* dereferenced, also when Stop() ran inside the callback of a firing.
C22_PeriodicTimer ==
    /\ periodic_timer.enabled_for = periodic_timer.interval_ms_
    /\ periodic_timer.stopped_at = <<>>
          => /\ periodic_timer.timer_ = "armed"
             /\ periodic_timer.enables = periodic_timer.callbacks + 1
    /\ periodic_timer.stopped_at # <<>>
          => /\ periodic_timer.callbacks = periodic_timer.stopped_at[1]
             /\ periodic_timer.timer_ = "null"
             /\ ~periodic_timer.null_deref
             /\ ~periodic_timer.crashed
====
